---- MODULE Spec2Model ----
(***************************************************************************)
(* Model of build_janudul.py: the GTFS active-service resolver             *)
(* (active_service_ids), the time parser (to_seconds) and the departure    *)
(* enumerator of main().  Text values are sequences of one-character       *)
(* tokens, so that parsing and formatting are computed, not assumed.       *)
(* The module constants STOP_NAME, ONLY_TRAM and MAX_RESULTS are the       *)
(* configuration of a run; ONLY_TRAM and MAX_RESULTS are drawn in the      *)
(* initial states, the values of the source among them.  The clock is      *)
(* taken in whole seconds.                                                 *)
(***************************************************************************)
EXTENDS Integers, Sequences, FiniteSets, TLC

VARIABLES
    pc,                 \* position in main() / active_service_ids()
    now,                \* datetime.now(TZ): [date, sec, fold]
    today,              \* now.date()
    STOP_NAME,          \* configuration: the stop-name query
    ONLY_TRAM,          \* configuration: mode filtering on/off
    MAX_RESULTS,        \* configuration: result limit
    stops, stop_times, trips, routes, calendar, cal_dates,   \* the tables
    stop_ids,           \* set of target stop ids
    active,             \* local set of active_service_ids()
    ci,                 \* number of calendar rows consumed
    cj,                 \* number of calendar_dates rows consumed
    active_sids,        \* value returned by active_service_ids()
    allowed_route_ids,  \* None or [none |-> FALSE, ids |-> set of route ids]
    si,                 \* number of stop_times rows consumed
    results,            \* list of departures built so far
    disp,               \* history: what happened to each consumed stop_times row
    out,                \* janudul.json: None or [none |-> FALSE, doc |-> document]
    error               \* NoError or the exception that ended the run

vars == <<pc, now, today, STOP_NAME, ONLY_TRAM, MAX_RESULTS, stops, stop_times,
          trips, routes, calendar, cal_dates, stop_ids, active, ci, cj, active_sids,
          allowed_route_ids, si, results, disp, out, error>>

\* Python's None, for a value that is otherwise a record.
None == [none |-> TRUE]

\* No exception has been raised.
NoError == <<>>

\* A call that raised ValueError instead of returning a value.
ValueError == [ok |-> FALSE]

-----------------------------------------------------------------------------
(* Text *)

Digits == <<"0", "1", "2", "3", "4", "5", "6", "7", "8", "9">>

IsDigit(c) == \E k \in 1..10 : Digits[k] = c

DigitVal(c) == (CHOOSE k \in 1..10 : Digits[k] = c) - 1

AllDigits(s) == \A k \in 1..Len(s) : IsDigit(s[k])

RECURSIVE DecVal(_)
DecVal(s) == IF s = <<>> THEN 0
             ELSE 10 * DecVal(SubSeq(s, 1, Len(s) - 1)) + DigitVal(s[Len(s)])

Pad2(n) == <<Digits[((n \div 10) % 10) + 1], Digits[(n % 10) + 1]>>

Pad4(n) == Pad2(n \div 100) \o Pad2(n % 100)

\* Code points of the characters that occur in the timestamps, for str comparison.
Ord(c) == CASE c = "+" -> 43
            [] c = "-" -> 45
            [] IsDigit(c) -> 48 + DigitVal(c)
            [] c = ":" -> 58
            [] c = "T" -> 84

\* Python's str < str: lexicographic by code point, a proper prefix is smaller.
RECURSIVE StrLess(_, _)
StrLess(a, b) ==
    IF b = <<>> THEN FALSE
    ELSE IF a = <<>> THEN TRUE
    ELSE IF a[1] # b[1] THEN Ord(a[1]) < Ord(b[1])
    ELSE StrLess(Tail(a), Tail(b))

\* str.lower() on the letters that occur in the stop names.  "u_ring" and
\* "U_ring" stand for the single characters u-with-ring and U-with-ring.
LowerChar(c) == CASE c = "J" -> "j"
                  [] c = "A" -> "a"
                  [] c = "N" -> "n"
                  [] c = "U_ring" -> "u_ring"
                  [] c = "V" -> "v"
                  [] c = "D" -> "d"
                  [] c = "L" -> "l"
                  [] c = "U" -> "u"
                  [] OTHER -> c

Lower(s) == [k \in 1..Len(s) |-> LowerChar(s[k])]

\* Python's `sub in s` for strings.
Contains(sub, s) ==
    \E k \in 0..(Len(s) - Len(sub)) : SubSeq(s, k + 1, k + Len(sub)) = sub

\* str.split(sep) for a one-character separator.
RECURSIVE Split(_, _)
Split(s, sep) ==
    IF \A k \in 1..Len(s) : s[k] # sep THEN <<s>>
    ELSE LET p == CHOOSE k \in 1..Len(s) :
                      s[k] = sep /\ \A j \in 1..(k - 1) : s[j] # sep
         IN <<SubSeq(s, 1, p - 1)>> \o Split(SubSeq(s, p + 1, Len(s)), sep)

\* int(text) on the characters of the time fields: an optional sign, then digits.
PyInt(s) ==
    LET body == IF s # <<>> /\ s[1] \in {"+", "-"} THEN Tail(s) ELSE s
    IN IF body = <<>> \/ ~AllDigits(body) THEN ValueError
       ELSE [ok |-> TRUE,
             val |-> IF s[1] = "-" THEN 0 - DecVal(body) ELSE DecVal(body)]

-----------------------------------------------------------------------------
(* Civil dates *)

IsLeap(y) == (y % 4 = 0) /\ ((y % 100 # 0) \/ (y % 400 = 0))

DaysInMonth(y, m) == IF m = 2 THEN (IF IsLeap(y) THEN 29 ELSE 28)
                     ELSE IF m \in {4, 6, 9, 11} THEN 30 ELSE 31

RECURSIVE DaysBeforeMonth(_, _)
DaysBeforeMonth(y, m) ==
    IF m = 1 THEN 0 ELSE DaysBeforeMonth(y, m - 1) + DaysInMonth(y, m - 1)

\* date.toordinal(): 0001-01-01 is day 1.
ToOrdinal(d) ==
    LET y1 == d.y - 1
    IN y1 * 365 + (y1 \div 4) - (y1 \div 100) + (y1 \div 400)
       + DaysBeforeMonth(d.y, d.m) + d.d

\* date.weekday(): Monday = 0 .. Sunday = 6.
Weekday(d) == (ToOrdinal(d) + 6) % 7

NextDay(d) == IF d.d < DaysInMonth(d.y, d.m) THEN [d EXCEPT !.d = d.d + 1]
              ELSE IF d.m < 12 THEN [d EXCEPT !.m = d.m + 1, !.d = 1]
              ELSE [y |-> d.y + 1, m |-> 1, d |-> 1]

PrevDay(d) == IF d.d > 1 THEN [d EXCEPT !.d = d.d - 1]
              ELSE IF d.m > 1
                   THEN [d EXCEPT !.m = d.m - 1, !.d = DaysInMonth(d.y, d.m - 1)]
              ELSE [y |-> d.y - 1, m |-> 12, d |-> 31]

RECURSIVE AddDays(_, _)
AddDays(d, k) == IF k = 0 THEN d
                 ELSE IF k > 0 THEN AddDays(NextDay(d), k - 1)
                 ELSE AddDays(PrevDay(d), k + 1)

\* datetime.strptime(s, "%Y%m%d").date() on eight-character fields.
Strptime(s) ==
    IF Len(s) # 8 \/ ~AllDigits(s) THEN ValueError
    ELSE LET y == DecVal(SubSeq(s, 1, 4))
             m == DecVal(SubSeq(s, 5, 6))
             d == DecVal(SubSeq(s, 7, 8))
         IN IF y >= 1 /\ m \in 1..12 /\ d >= 1 /\ d <= DaysInMonth(y, m)
            THEN [ok |-> TRUE, val |-> [y |-> y, m |-> m, d |-> d]]
            ELSE ValueError

\* date <= date
DateLE(a, b) == ToOrdinal(a) <= ToOrdinal(b)

\* "%Y%m%d" text of a date (used to write the tables of the initial states).
Ymd(d) == Pad4(d.y) \o Pad2(d.m) \o Pad2(d.d)

-----------------------------------------------------------------------------
(* active_service_ids(calendar, calendar_dates, today) *)

weekday_cols == <<"monday", "tuesday", "wednesday", "thursday", "friday",
                  "saturday", "sunday">>

\* Variant: the end date taken as exclusive.
InRange_ExclusiveEnd(start, day, end) ==
    DateLE(start, day) /\ ToOrdinal(day) < ToOrdinal(end)

\* start <= today <= end
InRange(start, day, end) == DateLE(start, day) /\ DateLE(day, end)

\* The condition of the first loop, for a row whose dates parse.
RuleApplies(row, day) ==
    /\ InRange(Strptime(row.start_date).val, day, Strptime(row.end_date).val)
    /\ row[weekday_cols[Weekday(day) + 1]] = "1"

\* Variant: exception_type compared with the number 2, which no text equals.
ApplyException_IntTwo(act, cd, day) ==
    IF Strptime(cd.date).val = day /\ cd.exception_type = "1"
    THEN act \cup {cd.service_id}
    ELSE act

\* Variant: exception_type compared with the number 1, which no text equals.
ApplyException_IntOne(act, cd, day) ==
    IF Strptime(cd.date).val = day /\ cd.exception_type = "2"
    THEN act \ {cd.service_id}
    ELSE act

\* The body of the second loop, for a row whose date parses.
ApplyException(act, cd, day) ==
    IF Strptime(cd.date).val = day
    THEN IF cd.exception_type = "1" THEN act \cup {cd.service_id}
         ELSE IF cd.exception_type = "2" /\ cd.service_id \in act
              THEN act \ {cd.service_id}
         ELSE act
    ELSE act

Raise(what) ==
    /\ pc' = "raised"
    /\ error' = what

\* One iteration of `for row in calendar`.
CalendarRow ==
    /\ pc = "resolve"
    /\ ci < Len(calendar)
    /\ LET row == calendar[ci + 1]
       IN IF Strptime(row.start_date).ok /\ Strptime(row.end_date).ok
          THEN /\ active' = IF RuleApplies(row, today)
                            THEN active \cup {row.service_id} ELSE active
               /\ ci' = ci + 1
               /\ UNCHANGED <<pc, error>>
          ELSE /\ Raise(<<"ValueError", "strptime">>)
               /\ UNCHANGED <<active, ci>>
    /\ UNCHANGED <<now, today, STOP_NAME, ONLY_TRAM, MAX_RESULTS, stops, stop_times,
                   trips, routes, calendar, cal_dates, stop_ids, cj, active_sids,
                   allowed_route_ids, si, results, disp, out>>

\* One iteration of `for cd in calendar_dates`.
CalendarDateRow ==
    /\ pc = "resolve"
    /\ ci = Len(calendar)
    /\ cj < Len(cal_dates)
    /\ LET cd == cal_dates[cj + 1]
       IN IF Strptime(cd.date).ok
          THEN /\ active' = ApplyException(active, cd, today)
               /\ cj' = cj + 1
               /\ UNCHANGED <<pc, error>>
          ELSE /\ Raise(<<"ValueError", "strptime">>)
               /\ UNCHANGED <<active, cj>>
    /\ UNCHANGED <<now, today, STOP_NAME, ONLY_TRAM, MAX_RESULTS, stops, stop_times,
                   trips, routes, calendar, cal_dates, stop_ids, ci, active_sids,
                   allowed_route_ids, si, results, disp, out>>

\* `return active`, received by main() as active_sids.
ReturnActive ==
    /\ pc = "resolve"
    /\ ci = Len(calendar)
    /\ cj = Len(cal_dates)
    /\ active_sids' = active
    /\ pc' = "filters"
    /\ UNCHANGED <<now, today, STOP_NAME, ONLY_TRAM, MAX_RESULTS, stops, stop_times,
                   trips, routes, calendar, cal_dates, stop_ids, active, ci, cj,
                   allowed_route_ids, si, results, disp, out, error>>

-----------------------------------------------------------------------------
(* Time of day, datetimes in TZ = Europe/Prague *)

\* to_seconds(hhmmss): h, m, s = map(int, hhmmss.split(":"))
to_seconds(hhmmss) ==
    LET parts == Split(hhmmss, ":")
    IN IF Len(parts) # 3 THEN ValueError
       ELSE LET h == PyInt(parts[1])
                m == PyInt(parts[2])
                s == PyInt(parts[3])
            IN IF h.ok /\ m.ok /\ s.ok
               THEN [ok |-> TRUE, val |-> h.val * 3600 + m.val * 60 + s.val]
               ELSE ValueError

\* len(dep_str) != 8 or ":" not in dep_str
TimeFieldRejected(dep_str) ==
    Len(dep_str) # 8 \/ ~(\E k \in 1..Len(dep_str) : dep_str[k] = ":")

LastSunday(y, m) ==
    CHOOSE d \in 25..31 : Weekday([y |-> y, m |-> m, d |-> d]) = 6

\* tzinfo.utcoffset(dt) of Europe/Prague, in hours: summer time from the last
\* Sunday of March, 02:00 wall time, to the last Sunday of October, 03:00 wall
\* time.  In the skipped and in the repeated hour, fold selects the offset:
\* fold = 0 the one valid before the change, fold = 1 the one valid after it.
UtcOffset(dt) ==
    LET o == ToOrdinal(dt.date)
        spring == ToOrdinal([y |-> dt.date.y, m |-> 3,
                             d |-> LastSunday(dt.date.y, 3)])
        autumn == ToOrdinal([y |-> dt.date.y, m |-> 10,
                             d |-> LastSunday(dt.date.y, 10)])
    IN IF o < spring \/ o > autumn THEN 1
       ELSE IF o = spring
            THEN IF dt.sec < 7200 THEN 1
                 ELSE IF dt.sec < 10800 THEN (IF dt.fold = 0 THEN 1 ELSE 2)
                 ELSE 2
       ELSE IF o = autumn
            THEN IF dt.sec < 7200 THEN 2
                 ELSE IF dt.sec < 10800 THEN (IF dt.fold = 0 THEN 2 ELSE 1)
                 ELSE 1
       ELSE 2

\* datetime(now.year, now.month, now.day, 0, 0, 0, tzinfo=TZ)
midnight == [date |-> today, sec |-> 0, fold |-> 0]

\* Variant: the seconds wrap around the clock but the date is not advanced.
PlusSeconds_SameDay(dt, n) ==
    [date |-> dt.date, sec |-> (dt.sec + n) % 86400, fold |-> 0]

\* dt + timedelta(seconds=n): arithmetic on the wall clock, fold reset to 0.
PlusSeconds(dt, n) ==
    LET total == dt.sec + n
    IN [date |-> AddDays(dt.date, total \div 86400),
        sec |-> total % 86400,
        fold |-> 0]

\* a >= b for two datetimes of the same tzinfo: the wall clocks are compared,
\* utcoffset and fold are ignored.
DatetimeGE(a, b) ==
    \/ ToOrdinal(a.date) > ToOrdinal(b.date)
    \/ ToOrdinal(a.date) = ToOrdinal(b.date) /\ a.sec >= b.sec

\* dt.strftime("%H:%M")
StrftimeHM(dt) == Pad2(dt.sec \div 3600) \o <<":">> \o Pad2((dt.sec % 3600) \div 60)

\* dt.isoformat() of an aware datetime with whole seconds.
Isoformat(dt) ==
    Pad4(dt.date.y) \o <<"-">> \o Pad2(dt.date.m) \o <<"-">> \o Pad2(dt.date.d)
    \o <<"T">> \o Pad2(dt.sec \div 3600) \o <<":">> \o Pad2((dt.sec % 3600) \div 60)
    \o <<":">> \o Pad2(dt.sec % 60)
    \o <<"+">> \o Pad2(UtcOffset(dt)) \o <<":", "0", "0">>

-----------------------------------------------------------------------------
(* main() *)

\* Variant: the comparison without .lower().
MatchingStopIds_CaseSensitive ==
    {stops[k].stop_id : k \in {j \in 1..Len(stops) :
                                  Contains(STOP_NAME, stops[j].stop_name)}}

\* {s["stop_id"] for s in stops if STOP_NAME.lower() in s["stop_name"].lower()}
MatchingStopIds ==
    {stops[k].stop_id : k \in {j \in 1..Len(stops) :
                                  Contains(Lower(STOP_NAME), Lower(stops[j].stop_name))}}

\* trips_by_id = {t["trip_id"]: t for t in trips}: the last row of an id wins.
HasTrip(tid) == \E k \in 1..Len(trips) : trips[k].trip_id = tid

trips_by_id(tid) ==
    trips[CHOOSE k \in 1..Len(trips) :
              /\ trips[k].trip_id = tid
              /\ \A j \in (k + 1)..Len(trips) : trips[j].trip_id # tid]

\* routes_by_id.get(rid, {}), read with .get(field, "")
HasRoute(rid) == \E k \in 1..Len(routes) : routes[k].route_id = rid

routes_by_id(rid) ==
    routes[CHOOSE k \in 1..Len(routes) :
               /\ routes[k].route_id = rid
               /\ \A j \in (k + 1)..Len(routes) : routes[j].route_id # rid]

RouteField(rid, field) == IF HasRoute(rid) THEN routes_by_id(rid)[field] ELSE ""

\* {r["route_id"] for r in routes if r.get("route_type") == "0"}
TramRouteIds ==
    {routes[k].route_id : k \in {j \in 1..Len(routes) : routes[j].route_type = "0"}}

\* Variant: an empty active set filters like any other set.
ServiceDropped_EmptyDropsAll(trip) == trip.service_id \notin active_sids

\* Variant: an empty allow-set is taken for "no restriction".
RouteDropped_EmptyIsUnrestricted(trip) ==
    /\ ~allowed_route_ids.none
    /\ allowed_route_ids.ids # {}
    /\ trip.route_id \notin allowed_route_ids.ids

\* if active_sids and trip["service_id"] not in active_sids: continue
ServiceDropped(trip) == active_sids # {} /\ trip.service_id \notin active_sids

\* if allowed_route_ids is not None and trip["route_id"] not in allowed_route_ids
RouteDropped(trip) ==
    ~allowed_route_ids.none /\ trip.route_id \notin allowed_route_ids.ids

\* dep_dt = midnight + timedelta(seconds=dep_sec)
dep_dt(dep_sec) == PlusSeconds(midnight, dep_sec)

\* if dep_dt >= now
NotBeforeNow(dt) == DatetimeGE(dt, now)

\* The dictionary appended to results; src is a history field (the position of
\* the stop_times row), not part of the written document.
Departure(st, trip, dt, idx) ==
    [time |-> StrftimeHM(dt),
     timestamp |-> Isoformat(dt),
     route_short_name |-> RouteField(trip.route_id, "route_short_name"),
     route_long_name |-> RouteField(trip.route_id, "route_long_name"),
     headsign |-> trip.trip_headsign,
     direction_id |-> trip.direction_id,
     stop_id |-> st.stop_id,
     stop_sequence |-> st.stop_sequence,
     src |-> idx]

\* What the loop body does with one stop_times row.
Disposition(st) ==
    IF st.stop_id \notin stop_ids THEN "not_target_stop"
    ELSE IF ~HasTrip(st.trip_id) THEN "no_trip"
    ELSE IF ServiceDropped(trips_by_id(st.trip_id)) THEN "service_filtered"
    ELSE IF RouteDropped(trips_by_id(st.trip_id)) THEN "route_filtered"
    ELSE IF TimeFieldRejected(st.departure_time) THEN "bad_time"
    ELSE IF ~to_seconds(st.departure_time).ok THEN "ValueError"
    ELSE IF NotBeforeNow(dep_dt(to_seconds(st.departure_time).val)) THEN "emitted"
    ELSE "before_now"

\* results.sort(key=lambda r: r["timestamp"]): stable, ascending by the string.
RECURSIVE InsertByTimestamp(_, _)
InsertByTimestamp(sorted, r) ==
    IF sorted = <<>> THEN <<r>>
    ELSE IF StrLess(r.timestamp, sorted[1].timestamp) THEN <<r>> \o sorted
    ELSE <<sorted[1]>> \o InsertByTimestamp(Tail(sorted), r)

RECURSIVE SortByTimestamp(_)
SortByTimestamp(rs) ==
    IF rs = <<>> THEN <<>>
    ELSE InsertByTimestamp(SortByTimestamp(SubSeq(rs, 1, Len(rs) - 1)), rs[Len(rs)])

\* results[:MAX_RESULTS]
Truncate(rs, n) == SubSeq(rs, 1, IF Len(rs) < n THEN Len(rs) ELSE n)

Written(r) == [f \in DOMAIN r \ {"src"} |-> r[f]]

\* Lines 69-79, a stop matches: stop_ids is set and active_service_ids is called.
SelectStops ==
    /\ pc = "start"
    /\ MatchingStopIds # {}
    /\ stop_ids' = MatchingStopIds
    /\ active' = {}
    /\ ci' = 0
    /\ cj' = 0
    /\ pc' = "resolve"
    /\ UNCHANGED <<now, today, STOP_NAME, ONLY_TRAM, MAX_RESULTS, stops, stop_times,
                   trips, routes, calendar, cal_dates, active_sids,
                   allowed_route_ids, si, results, disp, out, error>>

\* Lines 70-72, no stop matches: raise SystemExit.
NoStopsExit ==
    /\ pc = "start"
    /\ MatchingStopIds = {}
    /\ stop_ids' = MatchingStopIds
    /\ Raise(<<"SystemExit", STOP_NAME>>)
    /\ UNCHANGED <<now, today, STOP_NAME, ONLY_TRAM, MAX_RESULTS, stops, stop_times,
                   trips, routes, calendar, cal_dates, active, ci, cj, active_sids,
                   allowed_route_ids, si, results, disp, out>>

\* Lines 81-88: the route allow-set, the empty result list.
BuildFilters ==
    /\ pc = "filters"
    /\ allowed_route_ids' = IF ONLY_TRAM THEN [none |-> FALSE, ids |-> TramRouteIds]
                            ELSE None
    /\ results' = <<>>
    /\ si' = 0
    /\ pc' = "scan"
    /\ UNCHANGED <<now, today, STOP_NAME, ONLY_TRAM, MAX_RESULTS, stops, stop_times,
                   trips, routes, calendar, cal_dates, stop_ids, active, ci, cj,
                   active_sids, disp, out, error>>

\* Lines 90-125: one iteration of `for st in stop_times`.
ScanStopTime ==
    /\ pc = "scan"
    /\ si < Len(stop_times)
    /\ LET st == stop_times[si + 1]
           what == Disposition(st)
       IN /\ disp' = Append(disp, what)
          /\ IF what = "ValueError"
             THEN /\ Raise(<<"ValueError", "to_seconds">>)
                  /\ UNCHANGED <<si, results>>
             ELSE /\ si' = si + 1
                  /\ results' =
                        IF what = "emitted"
                        THEN Append(results,
                                    Departure(st, trips_by_id(st.trip_id),
                                              dep_dt(to_seconds(st.departure_time).val),
                                              si + 1))
                        ELSE results
                  /\ UNCHANGED <<pc, error>>
    /\ UNCHANGED <<now, today, STOP_NAME, ONLY_TRAM, MAX_RESULTS, stops, stop_times,
                   trips, routes, calendar, cal_dates, stop_ids, active, ci, cj,
                   active_sids, allowed_route_ids, out>>

\* Lines 127-129: sort, truncate.
SortAndTruncate ==
    /\ pc = "scan"
    /\ si = Len(stop_times)
    /\ results' = Truncate(SortByTimestamp(results), MAX_RESULTS)
    /\ pc' = "write"
    /\ UNCHANGED <<now, today, STOP_NAME, ONLY_TRAM, MAX_RESULTS, stops, stop_times,
                   trips, routes, calendar, cal_dates, stop_ids, active, ci, cj,
                   active_sids, allowed_route_ids, si, disp, out, error>>

\* Lines 131-141: write janudul.json.
WriteOutput ==
    /\ pc = "write"
    /\ out' = [none |-> FALSE,
               doc |-> [generated_at |-> Isoformat(now),
                        stop_name_query |-> STOP_NAME,
                        only_tram |-> ONLY_TRAM,
                        departures |-> [k \in 1..Len(results) |-> Written(results[k])]]]
    /\ pc' = "done"
    /\ UNCHANGED <<now, today, STOP_NAME, ONLY_TRAM, MAX_RESULTS, stops, stop_times,
                   trips, routes, calendar, cal_dates, stop_ids, active, ci, cj,
                   active_sids, allowed_route_ids, si, results, disp, error>>

-----------------------------------------------------------------------------
(* Bounds and the tables the initial states are drawn from *)

MaxCal == 2
MaxCalDates == 2
MaxStopTimes == 2
MaxLimit == 2

\* MAX_RESULTS = 14
MAX_RESULTS_DEFAULT == 14

Limits == (1..MaxLimit) \cup {MAX_RESULTS_DEFAULT}

SeqsUpTo(S, n) == UNION {[1..k -> S] : k \in 0..n}

Date(y, m, d) == [y |-> y, m |-> m, d |-> d]

At(d, sec, fold) == [date |-> d, sec |-> sec, fold |-> fold]

QueryText == <<"J", "a", "n", "u_ring", "v", " ", "d", "u_ring", "l">>

NamePlatform == QueryText \o <<",", " ", "A">>

NameUpper == <<"J", "A", "N", "U_ring", "V", " ", "D", "U_ring", "L">>

NamePlain == <<"J", "a", "n", "u", "v", " ", "d", "u", "l">>

Stop(id, name) == [stop_id |-> id, stop_name |-> name]

StopTables ==
    { <<Stop("s1", NamePlatform), Stop("s2", NameUpper), Stop("s3", NamePlain)>>,
      <<Stop("s2", NameUpper)>>,
      <<Stop("s3", NamePlain)>> }

Route(id, type, short, long) ==
    [route_id |-> id, route_type |-> type,
     route_short_name |-> short, route_long_name |-> long]

RouteTables ==
    { <<Route("r1", "0", "3", "Lidove sady - Horni Hanychov"),
        Route("r2", "3", "12", "Fugnerova - Letiste")>>,
      <<Route("r2", "3", "12", "Fugnerova - Letiste")>> }

Trip(id, route, service, headsign) ==
    [trip_id |-> id, route_id |-> route, service_id |-> service,
     trip_headsign |-> headsign, direction_id |-> "0"]

TripTable ==
    <<Trip("t1", "r1", "WD", "Horni Hanychov"),
      Trip("t2", "r2", "B", "Letiste"),
      Trip("t3", "r9", "WD", "Vratislavice")>>

StopTime(stop, trip, time, seq) ==
    [stop_id |-> stop, trip_id |-> trip, departure_time |-> time,
     stop_sequence |-> seq]

Hms(h, m, s) == Pad2(h) \o <<":">> \o Pad2(m) \o <<":">> \o Pad2(s)

NonNumeric == <<"a", "b", ":", "c", "d", ":", "e", "f">>

TwoParts == <<"1", "2", "3", "4", ":", "5", "6", "7">>

NoColon == <<"1", "2", "3", "4", "5", "6", "7", "8">>

Short == <<>>

\* Rows of the feed scenarios: every way a row can leave the loop body.
FeedRows ==
    { StopTime("s1", "t1", Hms(8, 0, 0), "1"),
      StopTime("s2", "t2", Hms(9, 0, 0), "2"),
      StopTime("s1", "t3", Hms(25, 10, 0), "3"),
      StopTime("s1", "t9", Hms(8, 0, 0), "4"),
      StopTime("s3", "t1", Hms(8, 0, 0), "5"),
      StopTime("s1", "t1", NonNumeric, "6"),
      StopTime("s1", "t1", TwoParts, "7"),
      StopTime("s1", "t1", Short, "8"),
      StopTime("s1", "t1", NoColon, "9") }

\* Rows of the time scenarios: one stop, one trip, times around the clock changes.
TimedRows ==
    { StopTime("s1", "t1", Hms(0, 0, 0), "1"),
      StopTime("s1", "t1", Hms(2, 30, 0), "2"),
      StopTime("s1", "t1", Hms(2, 45, 0), "3"),
      StopTime("s1", "t1", Hms(3, 0, 0), "4"),
      StopTime("s1", "t1", Hms(25, 10, 0), "5"),
      StopTime("s1", "t1", Hms(99, 59, 59), "6"),
      StopTime("s1", "t1", NonNumeric, "7") }

Flags(days) == [c \in {weekday_cols[k] : k \in 1..7} |->
                   IF c \in days THEN "1" ELSE "0"]

Weekdays == Flags({"monday", "tuesday", "wednesday", "thursday", "friday"})

Weekend == Flags({"saturday", "sunday"})

EveryDay == Flags({weekday_cols[k] : k \in 1..7})

Rule(sid, start, end, flags) ==
    [service_id |-> sid, start_date |-> Ymd(start), end_date |-> Ymd(end)] @@ flags

Exception(sid, day, type) ==
    [service_id |-> sid, date |-> Ymd(day), exception_type |-> type]

Wednesday == Date(2024, 1, 3)

Sunday == Date(2024, 1, 7)

CalendarRows ==
    { Rule("WD", Date(2024, 1, 1), Date(2024, 12, 31), Weekdays),
      Rule("WD", Date(2024, 1, 1), Date(2024, 12, 31), Weekend),
      Rule("B", Wednesday, Sunday, EveryDay),
      Rule("B", Date(2024, 1, 4), Date(2024, 1, 6), EveryDay),
      Rule("B", Date(2024, 1, 1), Date(2024, 2, 30), EveryDay) }

CalDateRows ==
    { Exception(sid, day, type) :
        sid \in {"WD", "B"}, day \in {Wednesday, Sunday}, type \in {"1", "2"} }
    \cup { Exception("B", Date(2024, 2, 30), "1") }

\* (calendar, calendar_dates) of the feed scenarios, for a Monday 2024-01-01.
NewYear == Date(2024, 1, 1)

FeedCalendars ==
    { <<<<>>, <<>>>>,
      <<<<Rule("WD", NewYear, Date(2024, 12, 31), Weekdays)>>, <<>>>>,
      <<<<Rule("WD", NewYear, Date(2024, 12, 31), Weekdays)>>,
        <<Exception("B", NewYear, "1")>>>>,
      <<<<Rule("WD", NewYear, Date(2024, 12, 31), Weekdays)>>,
        <<Exception("WD", NewYear, "2")>>>> }

\* The days of the time scenarios: an ordinary day, the day summer time starts,
\* the day it ends, the last day of a year.
TimedDays == {NewYear, Date(2024, 3, 31), Date(2024, 10, 27), Date(2023, 12, 31)}

\* datetime.now(TZ) on such a day.  A wall time of the skipped hour (02:00 to
\* 03:00 of the day summer time starts) is never the current time; a wall time
\* of the repeated hour (02:00 to 03:00 of the day it ends) is the current time
\* twice, with fold = 0 and with fold = 1.
TimedNows ==
    { n \in [date : TimedDays, sec : {0, 9000, 10800}, fold : {0, 1}] :
        /\ ~(n.date = Date(2024, 3, 31) /\ n.sec = 9000)
        /\ n.fold = 1 => (n.date = Date(2024, 10, 27) /\ n.sec = 9000) }

-----------------------------------------------------------------------------
(* Specifications *)

\* State of main() before line 69, with the tables read and the clock taken.
Entry(n) ==
    /\ pc = "start"
    /\ now = n
    /\ today = n.date
    /\ STOP_NAME = QueryText
    /\ stop_ids = {}
    /\ active = {}
    /\ ci = 0
    /\ cj = 0
    /\ active_sids = {}
    /\ allowed_route_ids = None
    /\ si = 0
    /\ results = <<>>
    /\ disp = <<>>
    /\ out = None
    /\ error = NoError

\* The whole run over the feed scenarios.
Init ==
    /\ Entry(At(NewYear, 6 * 3600, 0))
    /\ ONLY_TRAM \in BOOLEAN
    /\ MAX_RESULTS \in Limits
    /\ stops \in StopTables
    /\ routes \in RouteTables
    /\ trips = TripTable
    /\ \E c \in FeedCalendars : calendar = c[1] /\ cal_dates = c[2]
    /\ stop_times \in SeqsUpTo(FeedRows, MaxStopTimes)

Next ==
    \/ SelectStops
    \/ NoStopsExit
    \/ CalendarRow
    \/ CalendarDateRow
    \/ ReturnActive
    \/ BuildFilters
    \/ ScanStopTime
    \/ SortAndTruncate
    \/ WriteOutput

Spec == Init /\ [][Next]_vars

\* The whole run over the time scenarios.
InitTime ==
    /\ \E n \in TimedNows : Entry(n)
    /\ ONLY_TRAM = TRUE
    /\ MAX_RESULTS \in Limits
    /\ stops \in {s \in StopTables : Len(s) # 2}
    /\ routes \in {r \in RouteTables : Len(r) = 2}
    /\ trips = TripTable
    /\ calendar \in SeqsUpTo({Rule("WD", NewYear, Date(2024, 12, 31), EveryDay)}, 1)
    /\ cal_dates \in SeqsUpTo({Exception("WD", NewYear, "1")}, 1)
    /\ stop_times \in SeqsUpTo(TimedRows, MaxStopTimes)

SpecTime == InitTime /\ [][Next]_vars

\* active_service_ids alone, called with arbitrary tables and target date.
InitCal ==
    /\ \E d \in {Wednesday, Sunday} : Entry(At(d, 0, 0))
    /\ ONLY_TRAM = TRUE
    /\ MAX_RESULTS = MAX_RESULTS_DEFAULT
    /\ stops = <<>>
    /\ routes = <<>>
    /\ trips = <<>>
    /\ stop_times = <<>>
    /\ calendar \in SeqsUpTo(CalendarRows, MaxCal)
    /\ cal_dates \in SeqsUpTo(CalDateRows, MaxCalDates)

CallResolver ==
    /\ pc = "start"
    /\ active' = {}
    /\ ci' = 0
    /\ cj' = 0
    /\ pc' = "resolve"
    /\ UNCHANGED <<now, today, STOP_NAME, ONLY_TRAM, MAX_RESULTS, stops, stop_times,
                   trips, routes, calendar, cal_dates, stop_ids, active_sids,
                   allowed_route_ids, si, results, disp, out, error>>

NextCal ==
    \/ CallResolver
    \/ CalendarRow
    \/ CalendarDateRow
    \/ ReturnActive

SpecCal == InitCal /\ [][NextCal]_vars

-----------------------------------------------------------------------------
(* Properties of active_service_ids *)

\* active_service_ids has returned its set to main().
Resolved == pc = "filters"

\* Row k of calendar_dates is dated exactly today, for service sid, of this type.
ExceptionToday(k, sid, type) ==
    /\ cal_dates[k].service_id = sid
    /\ cal_dates[k].exception_type = type
    /\ cal_dates[k].date = Ymd(today)

Services ==
    {calendar[k].service_id : k \in 1..Len(calendar)}
    \cup {cal_dates[k].service_id : k \in 1..Len(cal_dates)}

\* A calendar row of sid covers today: range with both ends, weekday flag "1".
RuleCoversToday(sid) ==
    \E k \in 1..Len(calendar) :
        LET row == calendar[k]
            col == weekday_cols[((ToOrdinal(today) - 1) % 7) + 1]
        IN /\ row.service_id = sid
           /\ ToOrdinal(Strptime(row.start_date).val) <= ToOrdinal(today)
           /\ ToOrdinal(today) <= ToOrdinal(Strptime(row.end_date).val)
           /\ row[col] = "1"

\* C1 as stated: a remove row dated today keeps the service out of the result,
\* whatever other exception rows the service has on that date.
C1_RemoveAlwaysWins ==
    Resolved =>
        \A sid \in Services :
            (\E k \in 1..Len(cal_dates) : ExceptionToday(k, sid, "2"))
                => sid \notin active_sids

\* C1 amended: a remove row dated today keeps the service out of the result,
\* whatever the calendar rules say, provided no add row of the same service and
\* date follows it in calendar_dates.
C1_RemoveWinsUnlessAddFollows ==
    Resolved =>
        \A sid \in Services :
            (\E k \in 1..Len(cal_dates) :
                /\ ExceptionToday(k, sid, "2")
                /\ \A j \in (k + 1)..Len(cal_dates) : ~ExceptionToday(j, sid, "1"))
                => sid \notin active_sids

\* A service whose rule covers today was added before a remove row took it out.
C1_Witness ==
    /\ Resolved
    /\ \E sid \in Services :
          /\ RuleCoversToday(sid)
          /\ \E k \in 1..Len(cal_dates) :
                /\ ExceptionToday(k, sid, "2")
                /\ \E j \in 1..(k - 1) : ExceptionToday(j, sid, "1")
          /\ sid \notin active_sids

\* C2 as stated: an add row dated today puts the service into the result,
\* whatever other exception rows the service has on that date.
C2_AddAlwaysWins ==
    Resolved =>
        \A sid \in Services :
            (\E k \in 1..Len(cal_dates) : ExceptionToday(k, sid, "1"))
                => sid \in active_sids

\* C2 amended: an add row dated today puts the service into the result, with or
\* without a calendar rule, provided no remove row of the same service and date
\* follows it in calendar_dates.
C2_AddWinsUnlessRemoveFollows ==
    Resolved =>
        \A sid \in Services :
            (\E k \in 1..Len(cal_dates) :
                /\ ExceptionToday(k, sid, "1")
                /\ \A j \in (k + 1)..Len(cal_dates) : ~ExceptionToday(j, sid, "2"))
                => sid \in active_sids

\* A service with no rule covering today is in the result through an add row.
C2_Witness ==
    /\ Resolved
    /\ \E sid \in Services :
          /\ ~RuleCoversToday(sid)
          /\ \E k \in 1..Len(cal_dates) : ExceptionToday(k, sid, "1")
          /\ sid \in active_sids

\* The result of the second loop over the rows dated today alone.
RECURSIVE ExceptionsOfToday(_)
ExceptionsOfToday(rows) ==
    IF rows = <<>> THEN <<>>
    ELSE IF rows[1].date = Ymd(today)
         THEN <<rows[1]>> \o ExceptionsOfToday(Tail(rows))
         ELSE ExceptionsOfToday(Tail(rows))

RECURSIVE ApplyAll(_, _)
ApplyAll(act, rows) ==
    IF rows = <<>> THEN act
    ELSE ApplyAll(ApplyException(act, rows[1], today), Tail(rows))

\* C3: a service whose calendar rule covers today (start <= today <= end, both
\* ends included, weekday flag "1") and that has no calendar_dates row dated
\* today is in the result; and the result is the one the rows dated today
\* alone give, so rows of other days change nothing.
C3_RuleActiveWithoutException ==
    Resolved =>
        /\ \A sid \in Services :
              ( /\ RuleCoversToday(sid)
                /\ \A k \in 1..Len(cal_dates) :
                      ~(cal_dates[k].service_id = sid /\ cal_dates[k].date = Ymd(today)) )
                  => sid \in active_sids
        /\ active_sids =
              ApplyAll({sid \in Services : RuleCoversToday(sid)},
                       ExceptionsOfToday(cal_dates))

\* Today is the last day of a covering rule, and a remove row of the same
\* service dated another day did not take the service out.
C3_Witness ==
    /\ Resolved
    /\ \E k \in 1..Len(calendar) :
          /\ Strptime(calendar[k].end_date).val = today
          /\ RuleCoversToday(calendar[k].service_id)
          /\ calendar[k].service_id \in active_sids
          /\ \E j \in 1..Len(cal_dates) :
                /\ cal_dates[j].service_id = calendar[k].service_id
                /\ cal_dates[j].exception_type = "2"
                /\ cal_dates[j].date # Ymd(today)

-----------------------------------------------------------------------------
(* Properties of the stop selection and of the filters in the loop *)

\* Two characters that differ at most in case.
SameLetter(a, b) == a = b \/ LowerChar(a) = b \/ a = LowerChar(b)

\* The name holds the query at some offset, letter by letter, case ignored.
NameHoldsQuery(name) ==
    \E off \in 0..(Len(name) - Len(STOP_NAME)) :
        \A k \in 1..Len(STOP_NAME) : SameLetter(name[off + k], STOP_NAME[k])

StopsHoldingQuery ==
    {stops[k].stop_id : k \in {j \in 1..Len(stops) : NameHoldsQuery(stops[j].stop_name)}}

\* C7: when no stop name holds the query, the run ends in SystemExit naming the
\* query, with no stop_times row consumed and no output written; when some stop
\* does, stop_ids is exactly the set of all stops holding the query and no
\* SystemExit is raised.
C7_NoStopIsFatal ==
    /\ StopsHoldingQuery = {} =>
          /\ pc \in {"start", "raised"}
          /\ pc = "raised" => error = <<"SystemExit", STOP_NAME>>
          /\ si = 0 /\ disp = <<>> /\ results = <<>>
          /\ out = None
    /\ (StopsHoldingQuery # {} /\ pc # "start") =>
          /\ stop_ids = StopsHoldingQuery
          /\ error = NoError \/ error[1] # "SystemExit"

\* The run has ended in SystemExit with stop_times rows waiting and no output.
C7_Witness ==
    /\ pc = "raised"
    /\ error = <<"SystemExit", STOP_NAME>>
    /\ stop_times # <<>>
    /\ stops # <<>>
    /\ out = None

\* The trip row a stop_times row refers to.
TripRow(st) ==
    trips[CHOOSE k \in 1..Len(trips) : trips[k].trip_id = st.trip_id]

\* Row k got as far as the service check: target stop, trip found.
ReachedServiceCheck(k) ==
    /\ stop_times[k].stop_id \in stop_ids
    /\ \E j \in 1..Len(trips) : trips[j].trip_id = stop_times[k].trip_id

\* C8: a row is dropped by the service check iff the active set is non-empty
\* and the service of its trip is not in it; so with a non-empty active set
\* every departure is of an active service, and with an empty one the service
\* check drops nothing.
C8_ServiceFilter ==
    /\ \A k \in 1..Len(disp) :
          disp[k] = "service_filtered"
            <=> ( /\ ReachedServiceCheck(k)
                  /\ active_sids # {}
                  /\ TripRow(stop_times[k]).service_id \notin active_sids )
    /\ \A k \in 1..Len(results) :
          active_sids # {}
            => TripRow(stop_times[results[k].src]).service_id \in active_sids
    /\ active_sids = {} => \A k \in 1..Len(disp) : disp[k] # "service_filtered"

\* One run with a non-empty active set dropped a row and emitted another; the
\* tables were not empty.
C8_Witness ==
    /\ pc = "done"
    /\ active_sids # {}
    /\ \E k \in 1..Len(disp) : disp[k] = "service_filtered"
    /\ results # <<>>

\* Row k got as far as the route check.
ReachedRouteCheck(k) ==
    /\ ReachedServiceCheck(k)
    /\ disp[k] # "service_filtered"

TramRoutes ==
    {routes[k].route_id : k \in {j \in 1..Len(routes) : routes[j].route_type = "0"}}

NoRouteRow(rid) == \A k \in 1..Len(routes) : routes[k].route_id # rid

\* C10: with mode filtering on, a row is dropped by the route check iff the
\* route of its trip is not a route of type "0", every departure is on such a
\* route, and a feed without one gives no departure; with mode filtering off
\* the route check drops nothing, and a departure whose route has no row
\* carries empty route names.
C10_RouteFilter ==
    /\ \A k \in 1..Len(disp) :
          disp[k] = "route_filtered"
            <=> ( /\ ReachedRouteCheck(k)
                  /\ ONLY_TRAM
                  /\ TripRow(stop_times[k]).route_id \notin TramRoutes )
    /\ ONLY_TRAM =>
          /\ \A k \in 1..Len(results) :
                TripRow(stop_times[results[k].src]).route_id \in TramRoutes
          /\ TramRoutes = {} => results = <<>>
    /\ ~ONLY_TRAM =>
          \A k \in 1..Len(results) :
              NoRouteRow(TripRow(stop_times[results[k].src]).route_id)
                => /\ results[k].route_short_name = ""
                   /\ results[k].route_long_name = ""

\* With mode filtering off, the trip of an unknown route was written to the
\* document with empty route names.
C10_Witness ==
    /\ pc = "done"
    /\ ~ONLY_TRAM
    /\ \E k \in 1..Len(out.doc.departures) :
          /\ out.doc.departures[k].route_short_name = ""
          /\ out.doc.departures[k].route_long_name = ""
          /\ NoRouteRow(TripRow(stop_times[results[k].src]).route_id)

\* A well-formed eight-character "HH:MM:SS" value.
WellFormedTime(t) ==
    /\ Len(t) = 8
    /\ t[3] = ":" /\ t[6] = ":"
    /\ \A k \in {1, 2, 4, 5, 7, 8} : IsDigit(t[k])

\* C6 as stated: a row at a target stop whose trip is missing or whose
\* departure_time is not well formed is skipped, and the run goes on.
C6_MalformedIsSkipped ==
    \A k \in 1..Len(disp) :
        ( /\ stop_times[k].stop_id \in stop_ids
          /\ \/ \A j \in 1..Len(trips) : trips[j].trip_id # stop_times[k].trip_id
             \/ ~WellFormedTime(stop_times[k].departure_time) )
          => /\ disp[k] \in {"no_trip", "service_filtered", "route_filtered", "bad_time"}
             /\ pc # "raised"
             /\ error = NoError

-----------------------------------------------------------------------------
(* Properties of the departure times *)

\* The fields of an ISO timestamp "YYYY-MM-DDTHH:MM:SS+HH:MM", read back.
TsDate(ts) == Date(DecVal(SubSeq(ts, 1, 4)), DecVal(SubSeq(ts, 6, 7)),
                   DecVal(SubSeq(ts, 9, 10)))

TsClock(ts) == DecVal(SubSeq(ts, 12, 13)) * 3600 + DecVal(SubSeq(ts, 15, 16)) * 60
               + DecVal(SubSeq(ts, 18, 19))

TsOffset(ts) == DecVal(SubSeq(ts, 21, 22)) * 3600 + DecVal(SubSeq(ts, 24, 25)) * 60

\* Days counted from 2020-01-01, to keep the seconds within 32 bits.
DayNumber(d) == ToOrdinal(d) - ToOrdinal(Date(2020, 1, 1))

\* Seconds on the civil (wall-clock) time scale of the zone.
CivilSeconds(ts) == DayNumber(TsDate(ts)) * 86400 + TsClock(ts)

\* The absolute instant a timestamp denotes: seconds on the UTC time scale.
Instant(ts) == CivilSeconds(ts) - TsOffset(ts)

\* The timestamp the loop gives the row at position k.
TimestampOfRow(k) ==
    Isoformat(dep_dt(to_seconds(stop_times[k].departure_time).val))

Eligible == {k \in 1..Len(disp) : disp[k] = "emitted"}

\* C4 as stated: the departure list is non-decreasing by absolute instant and
\* holds no departure whose instant is before now.
C4_OrderedByInstant ==
    pc = "done" =>
        /\ \A i, j \in 1..Len(results) :
              i < j => Instant(results[i].timestamp) <= Instant(results[j].timestamp)
        /\ \A i \in 1..Len(results) :
              Instant(results[i].timestamp) >= Instant(Isoformat(now))

\* C5 as stated: the list holds min(N, k) of the k eligible departures, in
\* ascending order of absolute instant, and no eligible departure left out is
\* earlier than one in the list.
C5_EarliestKept ==
    pc = "done" =>
        /\ Len(results) = IF Cardinality(Eligible) < MAX_RESULTS
                          THEN Cardinality(Eligible) ELSE MAX_RESULTS
        /\ \A i \in 1..Len(results) : results[i].src \in Eligible
        /\ \A i, j \in 1..Len(results) :
              i < j => /\ results[i].src # results[j].src
                       /\ Instant(results[i].timestamp) <= Instant(results[j].timestamp)
        /\ \A k \in Eligible :
              (\A i \in 1..Len(results) : results[i].src # k)
                => \A i \in 1..Len(results) :
                      Instant(results[i].timestamp) <= Instant(TimestampOfRow(k))

\* C9: for a well-formed time HH:MM:SS (MM, SS below 60, HH any two digits) the
\* timestamp reads, on the civil time scale, today's midnight plus
\* HH*3600 + MM*60 + SS seconds, so hours from 24 on fall on a later calendar
\* day, and the label is HH modulo 24 and MM, zero-padded; "25:10:00" on
\* 2024-01-01 gives 2024-01-02T01:10:00 and "01:10".
C9_CivilMidnightPlusSeconds ==
    \A i \in 1..Len(results) :
        LET t == stop_times[results[i].src].departure_time
            hh == DecVal(SubSeq(t, 1, 2))
            mm == DecVal(SubSeq(t, 4, 5))
            ss == DecVal(SubSeq(t, 7, 8))
        IN (WellFormedTime(t) /\ mm < 60 /\ ss < 60) =>
             /\ CivilSeconds(results[i].timestamp)
                  = DayNumber(today) * 86400 + hh * 3600 + mm * 60 + ss
             /\ ToOrdinal(TsDate(results[i].timestamp))
                  = ToOrdinal(today) + (hh \div 24)
             /\ Len(results[i].timestamp) = 25
             /\ results[i].time = Pad2(hh % 24) \o <<":">> \o Pad2(mm)
             /\ (today = NewYear /\ t = Hms(25, 10, 0)) =>
                   /\ SubSeq(results[i].timestamp, 1, 19)
                        = <<"2", "0", "2", "4", "-", "0", "1", "-", "0", "2", "T",
                            "0", "1", ":", "1", "0", ":", "0", "0">>
                   /\ results[i].time = <<"0", "1", ":", "1", "0">>

\* "25:10:00" of service day 2024-01-01 was written as 01:10 of 2024-01-02.
C9_Witness ==
    /\ pc = "done"
    /\ today = NewYear
    /\ \E i \in 1..Len(out.doc.departures) :
          /\ stop_times[results[i].src].departure_time = Hms(25, 10, 0)
          /\ out.doc.departures[i].time = <<"0", "1", ":", "1", "0">>
          /\ TsDate(out.doc.departures[i].timestamp) = Date(2024, 1, 2)

====
